---- MODULE Spec2Model ----
(***************************************************************************)
(* ajp4py: an AJP 1.3 client.  The model covers one request/response cycle *)
(* through its two public entry points:                                    *)
(*   - api.request, which opens an AjpConnection in a `with` block and     *)
(*     calls AjpConnection.send_and_receive (protocol.py);                 *)
(*   - AjpResponse.parse (models.py), the static response decoder that a   *)
(*     caller runs on a socket it has connected itself.                    *)
(* Bytes are naturals 0..255, Python bytes objects are sequences of them.  *)
(* The servlet container is the environment: it puts whole packets on the  *)
(* wire, well-formed or not, and may close the connection.                 *)
(***************************************************************************)
EXTENDS Integers, Sequences, FiniteSets, TLC

\* ------------------------------------------------------------------------
\* Bounds of the model
\* ------------------------------------------------------------------------
\* Packets the container puts on the wire during one cycle.
MaxPackets == 4
\* Largest request body (bytes) a data stream holds.
MaxBodyLen == 20000

\* ------------------------------------------------------------------------
\* Program constants
\* ------------------------------------------------------------------------
MAX_REQUEST_LENGTH == 8186
RESPONSE_HEADER_LENGTH == 5
SEND_BODY_CHUNK == 3
SEND_HEADERS == 4
END_RESPONSE == 5
GET_BODY_CHUNK == 6
CPONG_REPLY == 9
WWW_AUTHENTICATE == 40971
CONTENT_TYPE == 40961

\* AjpRequestDirection.first_bytes
WEB_SERVER_TO_SERVLET_CONTAINER == <<18, 52>>
SERVLET_CONTAINER_TO_WEB_SERVER == <<65, 66>>

\* AjpSendHeaders(code).name passed through header_case: ENUM_CASE -> Header-Case
AjpSendHeadersName ==
    40961 :> "Content-Type" @@ 40962 :> "Content-Language" @@
    40963 :> "Content-Length" @@ 40964 :> "Date" @@
    40965 :> "Last-Modified" @@ 40966 :> "Location" @@
    40967 :> "Set-Cookie" @@ 40968 :> "Set-Cookie2" @@
    40969 :> "Servlet-Engine" @@ 40970 :> "Status" @@
    40971 :> "Www-Authenticate"

\* _STATUS_BY_CODE, each entry's .description (the title in upper case)
StatusDescription ==
    100 :> "CONTINUE" @@ 101 :> "SWITCHING PROTOCOLS" @@ 102 :> "PROCESSING" @@
    200 :> "OK" @@ 201 :> "CREATED" @@ 202 :> "ACCEPTED" @@
    203 :> "NON-AUTHORITATIVE INFORMATION" @@ 204 :> "NO CONTENT" @@
    205 :> "RESET CONTENT" @@ 206 :> "PARTIAL CONTENT" @@
    207 :> "MULTI-STATUS" @@ 208 :> "ALREADY REPORTED" @@ 226 :> "IM USED" @@
    300 :> "MULTIPLE CHOICES" @@ 301 :> "MOVED PERMANENTLY" @@ 302 :> "FOUND" @@
    303 :> "SEE OTHER" @@ 304 :> "NOT MODIFIED" @@ 305 :> "USE PROXY" @@
    307 :> "TEMPORARY REDIRECT" @@ 308 :> "PERMANENT REDIRECT" @@
    400 :> "BAD REQUEST" @@ 401 :> "UNAUTHORIZED" @@ 402 :> "PAYMENT REQUIRED" @@
    403 :> "FORBIDDEN" @@ 404 :> "NOT FOUND" @@ 405 :> "METHOD NOT ALLOWED" @@
    406 :> "NOT ACCEPTABLE" @@ 407 :> "PROXY AUTHENTICATION REQUIRED" @@
    408 :> "REQUEST TIMEOUT" @@ 409 :> "CONFLICT" @@ 410 :> "GONE" @@
    411 :> "LENGTH REQUIRED" @@ 412 :> "PRECONDITION FAILED" @@
    413 :> "PAYLOAD TOO LARGE" @@ 414 :> "REQUEST-URI TOO LONG" @@
    415 :> "UNSUPPORTED MEDIA TYPE" @@
    416 :> "REQUESTED RANGE NOT SATISFIABLE" @@ 417 :> "EXPECTATION FAILED" @@
    418 :> "I'M A TEAPOT" @@ 421 :> "MISDIRECTED REQUEST" @@
    422 :> "UNPROCESSABLE ENTITY" @@ 423 :> "LOCKED" @@
    424 :> "FAILED DEPENDENCY" @@ 426 :> "UPGRADE REQUIRED" @@
    428 :> "PRECONDITION REQUIRED" @@ 429 :> "TOO MANY REQUESTS" @@
    431 :> "REQUEST HEADER FIELDS TOO LARGE" @@
    444 :> "CONNECTION CLOSED WITHOUT RESPONSE" @@
    451 :> "UNAVAILABLE FOR LEGAL REASONS" @@ 499 :> "CLIENT CLOSED REQUEST" @@
    500 :> "INTERNAL SERVER ERROR" @@ 501 :> "NOT IMPLEMENTED" @@
    502 :> "BAD GATEWAY" @@ 503 :> "SERVICE UNAVAILABLE" @@
    504 :> "GATEWAY TIMEOUT" @@ 505 :> "HTTP VERSION NOT SUPPORTED" @@
    506 :> "VARIANT ALSO NEGOTIATES" @@ 507 :> "INSUFFICIENT STORAGE" @@
    508 :> "LOOP DETECTED" @@ 510 :> "NOT EXTENDED" @@
    511 :> "NETWORK AUTHENTICATION REQUIRED" @@
    599 :> "NETWORK CONNECT TIMEOUT ERROR"

\* Faulty variant: a code the table does not have gives None
lookup_status_by_code_NoFallback(ajp_code) ==
    IF ajp_code \in DOMAIN StatusDescription
    THEN StatusDescription[ajp_code]
    ELSE "None"

\* lookup_status_by_code(code).description: KeyError falls back to
\* AjpStatus.UNKNOWN = (0, 'Unknown Status')
lookup_status_by_code(ajp_code) ==
    IF ajp_code \in DOMAIN StatusDescription
    THEN StatusDescription[ajp_code]
    ELSE "UNKNOWN STATUS"

\* ------------------------------------------------------------------------
\* Python values
\* ------------------------------------------------------------------------
\* None, or a bytes object / BytesIO over `bytes` (what is left to read).
None == [some |-> FALSE, bytes |-> <<>>]
Some(b) == [some |-> TRUE, bytes |-> b]
\* A str (text) and a bytes value are different Python values even when the
\* characters agree: 'Content-Type' # b'Content-Type'.
PyStr(s) == [t |-> "str", s |-> s, b |-> <<>>]
PyBytes(b) == [t |-> "bytes", s |-> "", b |-> b]
\* the status code of a response that saw no SEND_HEADERS (Python None)
NoStatus == -1

Min(a, b) == IF a < b THEN a ELSE b
\* BytesIO.read(n) / bytes[:n] and what stays behind
Take(s, n) == SubSeq(s, 1, Min(n, Len(s)))
Drop(s, n) == SubSeq(s, Min(n, Len(s)) + 1, Len(s))

\* struct formats: '>H', '>h', 'b'
U16(b) == b[1] * 256 + b[2]
S16(b) == IF U16(b) >= 32768 THEN U16(b) - 65536 ELSE U16(b)
S8(x) == IF x >= 128 THEN x - 256 ELSE x
PackU16(n) == <<(n \div 256) % 256, n % 256>>

\* dict[key] = value: last write wins, the key keeps its first position
DictSet(d, k, v) ==
    IF \E i \in 1..Len(d) : d[i].k = k
    THEN [i \in 1..Len(d) |-> IF d[i].k = k THEN [k |-> k, v |-> v] ELSE d[i]]
    ELSE Append(d, [k |-> k, v |-> v])

\* ------------------------------------------------------------------------
\* Wire primitives (utils.py; models.py carries identical copies)
\* ------------------------------------------------------------------------
\* unpack_bytes(fmt, buffer): read calcsize(fmt) bytes, struct.unpack them;
\* struct.error when the buffer holds fewer.
unpack_bytes(size, buffer) ==
    [ok    |-> Len(buffer) >= size,
     chunk |-> Take(buffer, size),
     rest  |-> Drop(buffer, size)]

\* unpack_as_string_length(buffer, length): '%ds' % length is no struct
\* format when length < 0 (struct.error before anything is read); else the
\* bytes are unpacked and one more byte, the terminator, is skipped.
unpack_as_string_length(buffer, length) ==
    IF length < 0
    THEN [ok |-> FALSE, val |-> <<>>, rest |-> buffer]
    ELSE LET u == unpack_bytes(length, buffer) IN
         [ok |-> u.ok, val |-> u.chunk, rest |-> Drop(u.rest, 1)]

\* unpack_as_string(buffer): str_len is the 1-tuple unpack_bytes returns, so
\* `not str_len` is never true and None is never returned; a negative
\* length goes on to unpack_as_string_length.
unpack_as_string(buffer) ==
    LET l == unpack_bytes(2, buffer) IN
    IF ~l.ok
    THEN [ok |-> FALSE, val |-> <<>>, rest |-> l.rest]
    ELSE unpack_as_string_length(l.rest, S16(l.chunk))

\* ------------------------------------------------------------------------
\* Response decoder: AjpResponse.parse (models.py) and
\* AjpConnection._parse (protocol.py), the same loop over two sockets
\* ------------------------------------------------------------------------
\* Names a function body of protocol.py can resolve besides its own locals:
\* the module's globals.  RESPONSE_HEADER_LENGTH and RECEIVE_BUFFER_LENGTH
\* are bound in the class body of AjpConnection (protocol.py:36-39), which is
\* no enclosing scope of its methods; reading a bare name that is not bound
\* raises NameError.
ProtocolModuleGlobals ==
    {"socket", "BytesIO", "PROTOCOL_LOGGER", "AjpSendHeaders", "header_case",
     "lookup_status_by_code", "ATTRIBUTE", "AjpAttribute",
     "AjpPacketHeadersFromContainer", "AjpResponse", "unpack_as_string",
     "unpack_as_string_length", "unpack_bytes", "AjpConnection"}

NameIsBound(name) == name \in ProtocolModuleGlobals

\* The argument of the recv that reads a packet header: the literal 5 in
\* AjpResponse.parse, the bare name RESPONSE_HEADER_LENGTH in AjpConnection.
\* n = -1 stands for the NameError.
HeaderRecvSize(decoder) ==
    IF decoder = "AjpResponse.parse" THEN 5
    ELSE IF NameIsBound("RESPONSE_HEADER_LENGTH") THEN RESPONSE_HEADER_LENGTH
    ELSE -1

\* socket.recv(n) on a stream holding `wire`: up to n bytes of what has
\* arrived.  It blocks while nothing has arrived and the peer is still open.
RecvBlocks(wire, closed, n) == n > 0 /\ wire = <<>> /\ ~closed

\* Faulty variant: the loop also ends once a body chunk has been taken
LoopContinues_EndsOnBodyChunk(prefix_code) ==
    prefix_code # END_RESPONSE /\ prefix_code # SEND_BODY_CHUNK

\* while _prefix_code != END_RESPONSE
LoopContinues(prefix_code) == prefix_code # END_RESPONSE

\* Faulty variant: the lowest code is taken for a name length too
IsLiteralName_Inclusive(header_name_len) == header_name_len <= CONTENT_TYPE

\* if header_name_len < AjpSendHeaders.CONTENT_TYPE.value
IsLiteralName(header_name_len) == header_name_len < CONTENT_TYPE

\* Faulty variant: a code the enum does not have gets a name all the same
AjpSendHeaders_Lenient(code) ==
    [ok |-> TRUE,
     name |-> IF code \in DOMAIN AjpSendHeadersName
              THEN AjpSendHeadersName[code] ELSE "Unknown"]

\* header_case(AjpSendHeaders(header_name_len).name): the call of the enum
\* raises ValueError (ok = FALSE) for a value that is no member
AjpSendHeaders(code) ==
    [ok |-> code \in DOMAIN AjpSendHeadersName,
     name |-> IF code \in DOMAIN AjpSendHeadersName
              THEN AjpSendHeadersName[code] ELSE "None"]

\* The header loop of SEND_HEADERS: each header is a uint16, below
\* AjpSendHeaders.CONTENT_TYPE a literal name length, else an AjpSendHeaders
\* code (ValueError when the enum has no such member), then the value.
RECURSIVE ReadHeaders(_, _, _)
ReadHeaders(n, buffer, response_headers) ==
    IF n = 0
    THEN [exc |-> "none", headers |-> response_headers, rest |-> buffer]
    ELSE
    LET l == unpack_bytes(2, buffer)
        header_name_len == U16(l.chunk)
        Fail(e) == [exc |-> e, headers |-> response_headers, rest |-> buffer]
    IN
    IF ~l.ok THEN Fail("struct.error")
    ELSE IF IsLiteralName(header_name_len)
    THEN LET hn == unpack_as_string_length(l.rest, header_name_len)
             hv == unpack_as_string(hn.rest)
         IN IF ~hn.ok \/ ~hv.ok THEN Fail("struct.error")
            ELSE ReadHeaders(n - 1, hv.rest,
                     DictSet(response_headers, PyBytes(hn.val), PyBytes(hv.val)))
    ELSE IF ~AjpSendHeaders(header_name_len).ok
    THEN Fail("ValueError")
    ELSE LET hv == unpack_as_string(l.rest)
         IN IF ~hv.ok THEN Fail("struct.error")
            ELSE ReadHeaders(n - 1, hv.rest,
                     DictSet(response_headers,
                             PyStr(AjpSendHeaders(header_name_len).name),
                             PyBytes(hv.val)))

\* The SEND_HEADERS branch: status code, status message (read and dropped),
\* header count, headers; then the three setattr calls.
OnSendHeaders(ajp_resp, buffer) ==
    LET sc == unpack_bytes(2, buffer)
        msg == unpack_as_string(sc.rest)
        sz == unpack_bytes(2, msg.rest)
        hs == ReadHeaders(U16(sz.chunk), sz.rest, <<>>)
    IN
    IF ~sc.ok \/ ~msg.ok \/ ~sz.ok THEN [exc |-> "struct.error", resp |-> ajp_resp]
    ELSE IF hs.exc # "none" THEN [exc |-> hs.exc, resp |-> ajp_resp]
    ELSE [exc |-> "none",
          resp |-> [status_code |-> U16(sc.chunk),
                    status_msg |-> lookup_status_by_code(U16(sc.chunk)),
                    headers |-> hs.headers]]

\* How many bytes of the buffer the SEND_BODY_CHUNK branch appends to the
\* content, given the chunk length it unpacked: _resp_buffer.read(_data_len + 1)
ChunkReadSize(data_len) == data_len + 1

\* The SEND_BODY_CHUNK branch: _resp_content += _resp_buffer.read(...)
\* (BytesIO.read returns what is there when fewer bytes are left: no error).
OnSendBodyChunk(resp_content, buffer) ==
    LET l == unpack_bytes(2, buffer) IN
    IF ~l.ok THEN [exc |-> "struct.error", content |-> resp_content]
    ELSE [exc |-> "none",
          content |-> resp_content \o Take(l.rest, ChunkReadSize(U16(l.chunk)))]

\* Faulty variant: an unknown prefix code is skipped like a packet without data
OnUnknownPrefix_Ignored(prefix_code) == "none"

\* The branch taken for a prefix code the if/elif chain does not name.
OnUnknownPrefix(prefix_code) == "NotImplementedError"

\* Faulty variant: the two payload bytes are taken for body data
OnGetBodyChunk_AsBody(resp_content, buffer) ==
    LET r == unpack_bytes(2, buffer) IN
    IF r.ok
    THEN [exc |-> "none", content |-> resp_content \o Take(buffer, 2)]
    ELSE [exc |-> "struct.error", content |-> resp_content]

\* GET_BODY_CHUNK: `if _resp_buffer:` (a BytesIO object is always true)
\* unpack_bytes('>H', _resp_buffer), the number is dropped
OnGetBodyChunk(resp_content, buffer) ==
    [exc |-> IF unpack_bytes(2, buffer).ok THEN "none" ELSE "struct.error",
     content |-> resp_content]

\* The if/elif chain of one loop iteration on the packet (prefix_code,
\* buffer): the exception it raises ("none" when it falls through) and the
\* decoder's locals afterwards.
Dispatch(prefix_code, buffer, resp_content, ajp_resp) ==
    IF prefix_code = SEND_HEADERS
    THEN LET r == OnSendHeaders(ajp_resp, buffer)
         IN [exc |-> r.exc, content |-> resp_content, resp |-> r.resp]
    ELSE IF prefix_code = SEND_BODY_CHUNK
    THEN LET r == OnSendBodyChunk(resp_content, buffer)
         IN [exc |-> r.exc, content |-> r.content, resp |-> ajp_resp]
    ELSE IF prefix_code = END_RESPONSE
    THEN [exc |-> IF unpack_bytes(1, buffer).ok THEN "none" ELSE "struct.error",
          content |-> resp_content, resp |-> ajp_resp]
    ELSE IF prefix_code = GET_BODY_CHUNK
    THEN LET r == OnGetBodyChunk(resp_content, buffer)
         IN [exc |-> r.exc, content |-> r.content, resp |-> ajp_resp]
    ELSE [exc |-> OnUnknownPrefix(prefix_code),
          content |-> resp_content, resp |-> ajp_resp]

\* The top of one loop iteration: `if not _resp_buffer:` read a packet header
\* and then its body from the socket; a seeded buffer is used as it is.
\*   blocks: a recv finds nothing and the peer is open
\*   exc:    NameError (unbound header length), struct.error (fewer than 5
\*           header bytes), ValueError (recv of a negative size)
\*   recvs:  socket reads made;  want/got: bytes the body recv asked for and got
FetchPacket(decoder, prefix_code, resp_buffer, wire, closed) ==
    LET n == HeaderRecvSize(decoder)
        data == Take(wire, n)
        wire1 == Drop(wire, n)
        h == unpack_bytes(5, data)
        data_len == U16(SubSeq(h.chunk, 3, 4))
        base == [blocks |-> FALSE, exc |-> "none", prefix |-> prefix_code,
                 buffer |-> resp_buffer.bytes, wire |-> wire, recvs |-> 0,
                 fetched |-> FALSE, want |-> 0, got |-> 0]
    IN
    IF resp_buffer.some THEN base
    ELSE IF n < 0 THEN [base EXCEPT !.exc = "NameError"]
    ELSE IF RecvBlocks(wire, closed, n) THEN [base EXCEPT !.blocks = TRUE]
    ELSE IF ~h.ok
    THEN [base EXCEPT !.exc = "struct.error", !.wire = wire1, !.recvs = 1]
    ELSE IF data_len - 1 < 0
    THEN [base EXCEPT !.exc = "ValueError", !.wire = wire1, !.recvs = 1,
                      !.prefix = S8(h.chunk[5])]
    ELSE IF RecvBlocks(wire1, closed, data_len - 1)
    THEN [base EXCEPT !.blocks = TRUE]
    ELSE [base EXCEPT !.prefix = S8(h.chunk[5]),
                      !.buffer = Take(wire1, data_len - 1),
                      !.wire = Drop(wire1, data_len - 1),
                      !.recvs = 2, !.fetched = TRUE,
                      !.want = data_len - 1,
                      !.got = Len(Take(wire1, data_len - 1))]

\* ------------------------------------------------------------------------
\* Request codec (models.py, AjpForwardRequest)
\* ------------------------------------------------------------------------
\* A Python str is Some(<<code points>>); None is the absent string.
\* str.encode('utf8') for code points below 0x800
Utf8(string) ==
    LET RECURSIVE enc(_)
        enc(cs) == IF cs = <<>> THEN <<>>
                   ELSE (IF cs[1] < 128 THEN <<cs[1]>>
                         ELSE <<192 + (cs[1] \div 64), 128 + (cs[1] % 64)>>)
                        \o enc(Tail(cs))
    IN enc(string)

\* struct's '%ds' % n: exactly n bytes, cut or zero-padded
PackS(n, b) == [i \in 1..n |-> IF i <= Len(b) THEN b[i] ELSE 0]

\* Faulty variant: None is packed as a string of length 0 with its terminator
pack_as_string_NoneAsLengthZero(string) ==
    IF ~string.some THEN <<0, 0, 0>>
    ELSE IF string.bytes = <<>> THEN <<255, 255>>
    ELSE PackU16(Len(string.bytes))
         \o PackS(Len(string.bytes), Utf8(string.bytes)) \o <<0>>

\* pack_as_string(string): None and '' pack as '>h' -1; else '>H%dsb' with
\* string_len = len(string), the number of characters.
pack_as_string(string) ==
    IF ~string.some \/ string.bytes = <<>>
    THEN <<255, 255>>
    ELSE PackU16(Len(string.bytes))
         \o PackS(Len(string.bytes), Utf8(string.bytes)) \o <<0>>

\* struct.pack('>h', n) raises struct.error outside -32768..32767
FitsH(n) == n >= -32768 /\ n <= 32767

REQ_ATTRIBUTE == 10
ARE_DONE == 255
FORWARD_REQUEST == 2
GET == 2
DEFAULT_REQUEST_SERVER_PORT == 80

\* A header value that is a list of str
PyList(items) == [items |-> items]
IsList(v) == "items" \in DOMAIN v

\* ','.join(items)
RECURSIVE Join(_)
Join(items) ==
    IF items = <<>> THEN <<>>
    ELSE IF Len(items) = 1 THEN items[1]
    ELSE items[1] \o <<44>> \o Join(Tail(items))

\* hdr_val after `if isinstance(hdr_val, list): hdr_val = ','.join(hdr_val)`
HeaderValue(hdr_val) == IF IsList(hdr_val) THEN Some(Join(hdr_val.items)) ELSE hdr_val

\* Faulty variant: the code's low byte is left out
HeaderCode_HighByteOnly(value) == <<value \div 256>>

\* struct.pack('BB', hdr_name.value >> 8, hdr_name.value & 0x0F)
HeaderCode(value) == <<value \div 256, value % 16>>

\* _serialize_headers: '>h' count, then per header the name (an AjpHeader
\* member as two bytes; a str as a wire string) and the value as a wire
\* string.  A header is [code, name, value]: code > 0 for an AjpHeader member.
serialize_headers(request_headers) ==
    LET RECURSIVE ser(_)
        ser(hs) == IF hs = <<>> THEN <<>>
                   ELSE (IF hs[1].code > 0
                         THEN HeaderCode(hs[1].code)
                         ELSE pack_as_string(hs[1].name))
                        \o pack_as_string(HeaderValue(hs[1].value))
                        \o ser(Tail(hs))
    IN PackU16(Len(request_headers)) \o ser(request_headers)

\* struct.pack('b', attr.ajp_attr.code) raises struct.error above 127
AttributeCodesFit(attributes) ==
    \A i \in 1..Len(attributes) : attributes[i].code <= 127

\* Faulty variant: the block is closed with two ARE_DONE bytes
AttributesEnd_Twice == <<ARE_DONE, ARE_DONE>>

\* struct.pack('B', AjpAttribute.ARE_DONE.code)
AttributesEnd == <<ARE_DONE>>

\* _serialize_attributes: per attribute its code byte and one wire string,
\* or two (name, value) for REQ_ATTRIBUTE; then ARE_DONE.
\* An attribute is [code, name, value].
serialize_attributes(attributes) ==
    LET RECURSIVE ser(_)
        ser(as) == IF as = <<>> THEN <<>>
                   ELSE <<as[1].code>>
                        \o (IF as[1].code = REQ_ATTRIBUTE
                            THEN pack_as_string(as[1].name)
                                 \o pack_as_string(as[1].value)
                            ELSE pack_as_string(as[1].value))
                        \o ser(Tail(as))
    IN ser(attributes) \o AttributesEnd

\* Faulty variant: the port is packed low byte first
PackPort_LittleEndian(server_port) ==
    <<server_port % 256, (server_port \div 256) % 256>>

\* struct.pack('>h', self._server_port), for a port that fits
PackPort(server_port) == PackU16(server_port % 65536)

\* Faulty variant: the length counts the four header bytes too
PacketLength_WithHeader(packet) == Len(packet) + 4

\* len(packet), the length put into the packet header
PacketLength(packet) == Len(packet)

\* _serialize_forward_request: the packet body, then the header '>bbh'
\* (magic, len(packet)).  ok = FALSE is the struct.error of a '>h' that
\* does not fit (server port, header count, packet length) or of an
\* attribute code that does not fit 'b'.
serialize_to_packet(req) ==
    LET packet == <<FORWARD_REQUEST, req.method>>
                  \o pack_as_string(req.protocol)
                  \o pack_as_string(req.req_uri)
                  \o pack_as_string(req.remote_addr)
                  \o pack_as_string(req.remote_host)
                  \o pack_as_string(req.server_name)
                  \o PackPort(req.server_port)
                  \o <<IF req.is_ssl THEN 1 ELSE 0>>
                  \o serialize_headers(req.request_headers)
                  \o serialize_attributes(req.attributes)
    IN [ok |-> FitsH(req.server_port) /\ FitsH(Len(packet))
                 /\ FitsH(Len(req.request_headers))
                 /\ AttributeCodesFit(req.attributes),
        bytes |-> WEB_SERVER_TO_SERVLET_CONTAINER
                  \o PackU16(PacketLength(packet)) \o packet]

\* str(n) for n >= 0: the decimal digits
RECURSIVE IntToStr(_)
IntToStr(n) ==
    IF n < 10 THEN <<48 + n>> ELSE IntToStr(n \div 10) \o <<48 + (n % 10)>>

\* ------------------------------------------------------------------------
\* Body chunk transmitter (models.py, serialize_data_to_packet)
\* ------------------------------------------------------------------------
\* A data stream is None or [some, len, pos]: a file-like object of len
\* bytes read up to pos.  Body bytes are opaque: a run of them is the slice
\* [off, n] of the stream.
\* A packet written to the socket is [kind, bytes, data]: the literal bytes
\* followed by the slice `data` of the body stream (n = 0: none).
NoStream == [some |-> FALSE, len |-> 0, pos |-> 0]
Stream(n) == [some |-> TRUE, len |-> n, pos |-> 0]

\* Faulty variant: the read takes one byte more than the maximum
ReadSize_OneTooMany(ds) == Min(MAX_REQUEST_LENGTH + 1, ds.len - ds.pos)

\* self._data_stream.read(self.MAX_REQUEST_LENGTH): how many bytes it returns
ReadSize(ds) == Min(MAX_REQUEST_LENGTH, ds.len - ds.pos)

\* The packet yielded for one read of n bytes at offset off:
\* n > 0  '>H' len(data) + data behind the header '>bbH' (magic, len(packet));
\* n = 0  the header alone with length 0.
ChunkPacket(off, n) ==
    IF n > 0
    THEN [kind |-> "chunk",
          bytes |-> WEB_SERVER_TO_SERVLET_CONTAINER \o PackU16(n + 2)
                    \o PackU16(n),
          data |-> [off |-> off, n |-> n]]
    ELSE [kind |-> "terminator",
          bytes |-> WEB_SERVER_TO_SERVLET_CONTAINER \o PackU16(0),
          data |-> [off |-> off, n |-> 0]]

\* Faulty variant: the generator reads whatever the request holds
HasDataStream_Always(ds) == TRUE

\* `if not self._data_stream: return` lets the generator go on
HasDataStream(ds) == ds.some

\* next() on the generator.  gen is where it is suspended: "new" (not
\* started), "chunk" (at the yield of a chunk), "terminator" (at the yield of
\* the terminator), "done".  stop = StopIteration.
GenNext(gen, ds) ==
    IF gen = "done" \/ gen = "terminator" \/ (gen = "new" /\ ~HasDataStream(ds))
    THEN [stop |-> TRUE, packet |-> ChunkPacket(0, 0), gen |-> "done", ds |-> ds]
    ELSE LET n == ReadSize(ds) IN
         [stop |-> FALSE,
          packet |-> ChunkPacket(ds.pos, n),
          gen |-> IF n > 0 THEN "chunk" ELSE "terminator",
          ds |-> [ds EXCEPT !.pos = ds.pos + n]]

\* ------------------------------------------------------------------------
\* The servlet container (environment): what it can put on the wire
\* ------------------------------------------------------------------------
WireString(b) == PackU16(Len(b)) \o b \o <<0>>
ContainerPacket(prefix, body) ==
    SERVLET_CONTAINER_TO_WEB_SERVER \o PackU16(Len(body) + 1) \o <<prefix>> \o body

StrOK == <<79, 75>>
StrContentType == <<67, 111, 110, 116, 101, 110, 116, 45, 84, 121, 112, 101>>
StrTextPlain == <<116, 101, 120, 116, 47, 112, 108, 97, 105, 110>>
StrHello == <<104, 101, 108, 108, 111>>

\* A header name of CONTENT_TYPE - 1 bytes
LongName == [i \in 1..(CONTENT_TYPE - 1) |-> 120]

\* SEND_BODY_CHUNK as the container writes it: length, data, one padding byte
BodyChunkPacket(data) ==
    ContainerPacket(SEND_BODY_CHUNK, PackU16(Len(data)) \o data \o <<0>>)

\* The packets of the menu.  prefix: the prefix byte; data: the body data a
\* well-formed SEND_BODY_CHUNK carries; wf: the packet is well formed.
Menu ==
    [hdrs_literal |->
        [bytes |-> ContainerPacket(SEND_HEADERS,
                     PackU16(200) \o WireString(StrOK) \o PackU16(1)
                     \o WireString(StrContentType) \o WireString(StrTextPlain)),
         prefix |-> SEND_HEADERS, data |-> <<>>, wf |-> TRUE],
     hdrs_coded |->
        [bytes |-> ContainerPacket(SEND_HEADERS,
                     PackU16(200) \o WireString(StrOK) \o PackU16(1)
                     \o PackU16(CONTENT_TYPE) \o WireString(StrTextPlain)),
         prefix |-> SEND_HEADERS, data |-> <<>>, wf |-> TRUE],
     chunk_he |->
        [bytes |-> BodyChunkPacket(SubSeq(StrHello, 1, 2)),
         prefix |-> SEND_BODY_CHUNK, data |-> SubSeq(StrHello, 1, 2), wf |-> TRUE],
     chunk_llo |->
        [bytes |-> BodyChunkPacket(SubSeq(StrHello, 3, 5)),
         prefix |-> SEND_BODY_CHUNK, data |-> SubSeq(StrHello, 3, 5), wf |-> TRUE],
     chunk_hello |->
        [bytes |-> BodyChunkPacket(StrHello),
         prefix |-> SEND_BODY_CHUNK, data |-> StrHello, wf |-> TRUE],
     end_response |->
        [bytes |-> ContainerPacket(END_RESPONSE, <<1>>),
         prefix |-> END_RESPONSE, data |-> <<>>, wf |-> TRUE],
     get_body_chunk |->
        [bytes |-> ContainerPacket(GET_BODY_CHUNK, PackU16(MAX_REQUEST_LENGTH)),
         prefix |-> GET_BODY_CHUNK, data |-> <<>>, wf |-> TRUE],
     cpong |->
        [bytes |-> ContainerPacket(CPONG_REPLY, <<>>),
         prefix |-> CPONG_REPLY, data |-> <<>>, wf |-> TRUE],
     \* SEND_HEADERS whose status message is the absent string (FF FF)
     hdrs_no_msg |->
        [bytes |-> ContainerPacket(SEND_HEADERS,
                     PackU16(200) \o <<255, 255>> \o PackU16(1)
                     \o PackU16(CONTENT_TYPE) \o WireString(StrTextPlain)),
         prefix |-> SEND_HEADERS, data |-> <<>>, wf |-> TRUE],
     \* SEND_HEADERS whose header value is the absent string
     hdrs_no_value |->
        [bytes |-> ContainerPacket(SEND_HEADERS,
                     PackU16(200) \o WireString(StrOK) \o PackU16(1)
                     \o PackU16(CONTENT_TYPE) \o <<255, 255>>),
         prefix |-> SEND_HEADERS, data |-> <<>>, wf |-> TRUE],
     \* SEND_HEADERS with two headers: one that starts with CONTENT_TYPE, one
     \* that starts with CONTENT_TYPE - 1 (a literal name of that many bytes)
     hdrs_boundary |->
        [bytes |-> ContainerPacket(SEND_HEADERS,
                     PackU16(200) \o WireString(StrOK) \o PackU16(2)
                     \o PackU16(CONTENT_TYPE) \o WireString(StrTextPlain)
                     \o WireString(LongName) \o WireString(StrHello)),
         prefix |-> SEND_HEADERS, data |-> <<>>, wf |-> TRUE],
     \* SEND_HEADERS with a status of the table other than 200, and with one
     \* the table does not have
     hdrs_404 |->
        [bytes |-> ContainerPacket(SEND_HEADERS,
                     PackU16(404) \o WireString(StrOK) \o PackU16(0)),
         prefix |-> SEND_HEADERS, data |-> <<>>, wf |-> TRUE],
     hdrs_999 |->
        [bytes |-> ContainerPacket(SEND_HEADERS,
                     PackU16(999) \o WireString(StrOK) \o PackU16(0)),
         prefix |-> SEND_HEADERS, data |-> <<>>, wf |-> TRUE],
     \* chunk length 5, one data byte, no padding
     chunk_short |->
        [bytes |-> ContainerPacket(SEND_BODY_CHUNK, PackU16(5) \o <<104>>),
         prefix |-> SEND_BODY_CHUNK, data |-> <<>>, wf |-> FALSE],
     \* packet length field 9, three bytes of body behind the prefix
     chunk_cut |->
        [bytes |-> SERVLET_CONTAINER_TO_WEB_SERVER \o PackU16(9)
                   \o <<SEND_BODY_CHUNK>> \o PackU16(5) \o <<104>>,
         prefix |-> SEND_BODY_CHUNK, data |-> <<>>, wf |-> FALSE],
     \* three bytes of a packet header
     header_cut |->
        [bytes |-> SERVLET_CONTAINER_TO_WEB_SERVER \o <<0>>,
         prefix |-> 0, data |-> <<>>, wf |-> FALSE],
     \* packet length field 0
     length_zero |->
        [bytes |-> SERVLET_CONTAINER_TO_WEB_SERVER \o PackU16(0) \o <<END_RESPONSE>>,
         prefix |-> END_RESPONSE, data |-> <<>>, wf |-> FALSE],
     \* SEND_HEADERS whose one header starts with a field above the last
     \* AjpSendHeaders code: A00C and FFFF followed by a value, and A00C
     \* followed by that many name bytes, a terminator and a value
     hdrs_a00c |->
        [bytes |-> ContainerPacket(SEND_HEADERS,
                     PackU16(200) \o WireString(StrOK) \o PackU16(1)
                     \o PackU16(WWW_AUTHENTICATE + 1) \o WireString(StrHello)),
         prefix |-> SEND_HEADERS, data |-> <<>>, wf |-> FALSE],
     hdrs_ffff |->
        [bytes |-> ContainerPacket(SEND_HEADERS,
                     PackU16(200) \o WireString(StrOK) \o PackU16(1)
                     \o PackU16(65535) \o WireString(StrHello)),
         prefix |-> SEND_HEADERS, data |-> <<>>, wf |-> FALSE],
     hdrs_a00c_name |->
        [bytes |-> ContainerPacket(SEND_HEADERS,
                     PackU16(200) \o WireString(StrOK) \o PackU16(1)
                     \o WireString([i \in 1..(WWW_AUTHENTICATE + 1) |-> 120])
                     \o WireString(StrHello)),
         prefix |-> SEND_HEADERS, data |-> <<>>, wf |-> FALSE]]

MenuNames == DOMAIN Menu

\* SEND_HEADERS variants the container sends only as the first packet of
\* its answer
OpeningNames ==
    {"hdrs_no_msg", "hdrs_no_value", "hdrs_boundary", "hdrs_404", "hdrs_999",
     "hdrs_a00c", "hdrs_ffff", "hdrs_a00c_name"}

\* The packets a caller's upload handshake may already have read when it
\* hands the decoder a prefix code and a buffer (the packet minus its
\* 5-byte header).
SeedNames == {"hdrs_coded", "chunk_he", "end_response", "get_body_chunk", "cpong"}

\* The body data of the well-formed SEND_BODY_CHUNK packets of a transcript
RECURSIVE BodyOf(_)
BodyOf(log) ==
    IF log = <<>> THEN <<>> ELSE Menu[log[1]].data \o BodyOf(Tail(log))

\* Request body sizes the model tries
BodyLens == {0, 1, MAX_REQUEST_LENGTH, MAX_REQUEST_LENGTH + 1,
             2 * MAX_REQUEST_LENGTH, MaxBodyLen}

\* The socket's local port (getsockname()[1])
LocalPort == 54321
\* Connections one caller opens, one after the other.
MaxCalls == 3

\* ------------------------------------------------------------------------
\* State
\* ------------------------------------------------------------------------
VARIABLES
    entry,        \* "request": api.request; "parse": AjpResponse.parse;
                  \* "session": a caller building AjpForwardRequests and
                  \*            opening AjpConnections itself
    pc,           \* where the client is
    sock,         \* "none", "created", "connected", "closed"
    peerClosed,   \* the container has closed its end
    wire,         \* bytes the container has sent and the client has not read
    sentLog,      \* names of the packets the container has sent
    written,      \* packets the client has written to the socket
    ajp_request,  \* the AjpForwardRequest
    gen,          \* the serialize_data_to_packet generator
    prefix_code,  \* _prefix_code
    resp_buffer,  \* _resp_buffer: None or the bytes left in the BytesIO
    resp_content, \* _resp_content
    ajp_resp,     \* the AjpResponse being built
    outcome,      \* "none", "returned" or the exception that ended the cycle
    observed,     \* history: prefix codes the decoder has dispatched on
    recvs,        \* history: socket reads made
    underrun,     \* history: a read delivered fewer bytes than a length
                  \*          field of a packet announced
    chunkLens,    \* history: sum of the chunk lengths of the
                  \*          SEND_BODY_CHUNK packets dispatched
    string,       \* pack_as_string's argument
    packed,       \* what pack_as_string returned
    str_buffer,   \* the BytesIO unpack_as_string reads: its bytes and position
    unpacked,     \* how unpack_as_string ended and what it returned
    hdr_packet,   \* what _serialize_headers returned
    attr_packet,  \* what _serialize_attributes returned
    default_attributes, \* the list `attributes=[]` of __init__'s signature
    aliased,      \* ajp_request._attributes is that list object
    sends,        \* send_and_receive calls made with this request object
    calls         \* connections the caller has opened so far

vars == <<entry, pc, sock, peerClosed, wire, sentLog, written, ajp_request,
          gen, prefix_code, resp_buffer, resp_content, ajp_resp,
          outcome, observed, recvs, underrun, chunkLens,
          string, packed, str_buffer, unpacked, hdr_packet, attr_packet,
          default_attributes, aliased, sends, calls>>

\* The state of the wire primitives and of the request serializer
stringVars == <<string, packed, str_buffer, unpacked>>
blockVars == <<hdr_packet, attr_packet>>
\* What outlives one connection of a caller
sessionVars == <<default_attributes, aliased, sends, calls>>

\* unpack_as_string has not run
NotUnpacked == [done |-> FALSE, exc |-> "none", val |-> None]
\* BytesIO(b)
BytesIO(b) == [bytes |-> b, pos |-> 0]

\* The request api.request builds: a body makes it add the Content-Length
\* header (an AjpHeader key, the length as str).
SC_REQ_CONTENT_LENGTH == 40968
ContentLengthHeaders(ds) ==
    IF ds.some /\ ds.len > 0
    THEN <<[code |-> SC_REQ_CONTENT_LENGTH, name |-> None,
            value |-> Some(IntToStr(ds.len))]>>
    ELSE <<>>

\* --- inputs of the wire primitives ---
\* str arguments of pack_as_string: None, '', 'abc', 'e-acute', 'a e-acute'
Strings == {None, Some(<<>>), Some(<<97, 98, 99>>), Some(<<233>>), Some(<<97, 233>>)}
\* bytes that follow a wire string in its buffer
Trailing == {<<>>, <<7, 7>>}
\* buffers handed to unpack_as_string directly: the absent string (alone,
\* followed by a byte), a string of length 0, 'hi' followed by a byte, a
\* string cut short, half a length field
RawBuffers == {<<255, 255>>, <<255, 255, 7>>, <<0, 0, 0>>,
               <<0, 2, 104, 105, 0, 7>>, <<0, 5, 104>>, <<0>>}

\* --- inputs of the request serializer ---
StrIndex == <<47, 105, 110, 100, 101, 120>>
StrLocalhost == <<108, 111, 99, 97, 108, 104, 111, 115, 116>>
SC_REQ_ACCEPT == 40961
SC_REQ_HOST == 40971
SC_REQ_USER_AGENT == 40974
REMOTE_USER == 3
QUERY_STRING == 5
Header(code, name, value) == [code |-> code, name |-> name, value |-> value]
ATTRIBUTE(code, name, value) == [code |-> code, name |-> name, value |-> value]
\* req_uri: '/index', '/e-acute', None
Uris == {Some(StrIndex), Some(<<47, 233>>), None}
\* request_headers: {}, {SC_REQ_HOST: 'localhost'}, {'X-A': ['a', 'b']},
\* {SC_REQ_USER_AGENT: None, 'X-B': 'v'}, {SC_REQ_ACCEPT: '*/*', 'X-A': []}
HeaderMaps ==
    {<<>>,
     <<Header(SC_REQ_HOST, None, Some(StrLocalhost))>>,
     <<Header(0, Some(<<88, 45, 65>>), PyList(<<<<97>>, <<98>>>>))>>,
     <<Header(SC_REQ_USER_AGENT, None, None), Header(0, Some(<<88, 45, 66>>), Some(<<118>>))>>,
     <<Header(SC_REQ_ACCEPT, None, Some(<<42, 47, 42>>)), Header(0, Some(<<88, 45, 65>>), PyList(<<>>))>>}
\* attributes: [], [QUERY_STRING 'a=1'], the same twice,
\* [REQ_ATTRIBUTE ('n', 'v'), REMOTE_USER None], [REQ_ATTRIBUTE ('n', None)],
\* [ARE_DONE 'x']
AttributeLists ==
    {<<>>,
     <<ATTRIBUTE(QUERY_STRING, None, Some(<<97, 61, 49>>))>>,
     <<ATTRIBUTE(QUERY_STRING, None, Some(<<97, 61, 49>>)),
       ATTRIBUTE(QUERY_STRING, None, Some(<<97, 61, 49>>))>>,
     <<ATTRIBUTE(REQ_ATTRIBUTE, Some(<<110>>), Some(<<118>>)),
       ATTRIBUTE(REMOTE_USER, None, None)>>,
     <<ATTRIBUTE(REQ_ATTRIBUTE, Some(<<110>>), None)>>,
     <<ATTRIBUTE(ARE_DONE, None, Some(<<120>>))>>}
ServerPorts == {DEFAULT_REQUEST_SERVER_PORT, 8443, 40000}
DataStreams == {NoStream, Stream(1), Stream(MAX_REQUEST_LENGTH + 1)}

\* AjpResponse.__init__
NewResponse == [status_code |-> NoStatus, status_msg |-> "None", headers |-> <<>>]

\* The request api.request builds for a GET of /index (no headers, no
\* attributes), with the given data stream.
Request(ds) ==
    [method |-> GET,
     protocol |-> Some(<<72, 84, 84, 80, 47, 49, 46, 49>>),
     req_uri |-> Some(<<47, 105, 110, 100, 101, 120>>),
     remote_addr |-> Some(<<49, 50, 55, 46, 48, 46, 48, 46, 49>>),
     remote_host |-> Some(<<108, 111, 99, 97, 108, 104, 111, 115, 116>>),
     server_name |-> Some(<<108, 111, 99, 97, 108, 104, 111, 115, 116>>),
     server_port |-> DEFAULT_REQUEST_SERVER_PORT,
     is_ssl |-> FALSE,
     request_headers |-> ContentLengthHeaders(ds),
     attributes |-> <<>>,
     data_stream |-> ds]

\* AjpForwardRequest(method=GET, req_uri=..., remote_addr='127.0.0.1',
\* remote_host='localhost', server_name='tomcat', ...) built by a caller
ForwardRequest(uri, port, ssl, headers, attributes, ds) ==
    [method |-> GET,
     protocol |-> Some(<<72, 84, 84, 80, 47, 49, 46, 49>>),
     req_uri |-> uri,
     remote_addr |-> Some(<<49, 50, 55, 46, 48, 46, 48, 46, 49>>),
     remote_host |-> Some(StrLocalhost),
     server_name |-> Some(<<116, 111, 109, 99, 97, 116>>),
     server_port |-> port,
     is_ssl |-> ssl,
     request_headers |-> headers,
     attributes |-> attributes,
     data_stream |-> ds]

\* The entry points that go through an AjpConnection
UsesConnection == entry \in {"request", "session"}

Decoder == IF UsesConnection THEN "AjpConnection._parse" ELSE "AjpResponse.parse"

InitCommon ==
    /\ peerClosed = FALSE
    /\ wire = <<>>
    /\ written = <<>>
    /\ gen = "new"
    /\ resp_content = <<>>
    /\ ajp_resp = NewResponse
    /\ outcome = "none"
    /\ recvs = 0
    /\ underrun = FALSE
    /\ chunkLens = 0
    /\ packed = <<>>
    /\ unpacked = NotUnpacked
    /\ hdr_packet = <<>>
    /\ attr_packet = <<>>
    /\ default_attributes = <<>>
    /\ sends = 0

\* api.request before `with AjpConnection(...)`
InitRequest ==
    /\ entry = "request"
    /\ pc = "construct"
    /\ sock = "none"
    /\ \E ds \in {NoStream} \cup {Stream(n) : n \in BodyLens} :
          ajp_request = Request(ds)
    /\ aliased = FALSE
    /\ calls = 1
    /\ prefix_code = GET_BODY_CHUNK
    /\ resp_buffer = None
    /\ sentLog = <<>>
    /\ observed = <<>>
    /\ string = None
    /\ str_buffer = BytesIO(<<>>)

\* AjpResponse.parse(sock, ajp_request, prefix_code, resp_buffer) called on
\* a connected socket: with its defaults (0, None), with END_RESPONSE and no
\* buffer, or seeded with a packet already read.
InitParse ==
    /\ entry = "parse"
    /\ pc = "parse"
    /\ sock = "connected"
    /\ ajp_request = Request(NoStream)
    /\ aliased = FALSE
    /\ calls = 0
    /\ \/ /\ prefix_code \in {0, END_RESPONSE}
          /\ resp_buffer = None
          /\ sentLog = <<>>
       \/ \E m \in SeedNames :
             /\ prefix_code = Menu[m].prefix
             /\ resp_buffer = Some(Drop(Menu[m].bytes, 5))
             /\ sentLog = <<m>>
    /\ observed = <<>>
    /\ string = None
    /\ str_buffer = BytesIO(<<>>)

\* No connection: the entry points below work on values only
InitOffline ==
    /\ sock = "none"
    /\ aliased = FALSE
    /\ calls = 0
    /\ prefix_code = 0
    /\ resp_buffer = None
    /\ sentLog = <<>>
    /\ observed = <<>>

\* pack_as_string(string) called on a str or None, or unpack_as_string
\* called on a buffer of bytes
InitString ==
    /\ entry = "string"
    /\ InitOffline
    /\ ajp_request = Request(NoStream)
    /\ \/ pc = "pack" /\ string \in Strings /\ str_buffer = BytesIO(<<>>)
       \/ pc = "unpack" /\ string = None /\ \E b \in RawBuffers : str_buffer = BytesIO(b)

\* serialize_to_packet() and serialize_data_to_packet() called on a request
\* a caller has built
InitSerialize ==
    /\ entry = "serialize"
    /\ InitOffline
    /\ pc = "serialize"
    /\ \E uri \in Uris, port \in ServerPorts, ssl \in BOOLEAN,
          headers \in HeaderMaps, attributes \in AttributeLists,
          ds \in DataStreams :
          ajp_request = ForwardRequest(uri, port, ssl, headers, attributes, ds)
    /\ string = None
    /\ str_buffer = BytesIO(<<>>)

\* AjpForwardRequest(method=GET, req_uri='/index', ...): without the
\* attributes argument _attributes is the default list object of the
\* signature, with it the caller's own list
DefaultRequest ==
    ForwardRequest(Some(StrIndex), DEFAULT_REQUEST_SERVER_PORT, FALSE, <<>>,
                   default_attributes, NoStream)

\* attributes arguments of a caller: [], [QUERY_STRING 'a=1']
OwnAttributeLists == {<<>>, <<ATTRIBUTE(QUERY_STRING, None, Some(<<97, 61, 49>>))>>}

OwnRequest(attributes) ==
    ForwardRequest(Some(StrIndex), DEFAULT_REQUEST_SERVER_PORT, FALSE, <<>>,
                   attributes, NoStream)

\* The caller constructs a request, with or without the attributes argument
ConstructRequest(request, isAliased) ==
    \/ request = DefaultRequest /\ isAliased = TRUE
    \/ \E attributes \in OwnAttributeLists :
          request = OwnRequest(attributes) /\ isAliased = FALSE

\* A caller that builds its AjpForwardRequest and uses it as the docstring
\* of AjpConnection shows: `with AjpConnection(host, port) as ajp_conn:
\* ajp_conn.send_and_receive(ajp_request)`
InitSession ==
    /\ entry = "session"
    /\ pc = "construct"
    /\ sock = "none"
    /\ ConstructRequest(ajp_request, aliased)
    /\ calls = 1
    /\ prefix_code = GET_BODY_CHUNK
    /\ resp_buffer = None
    /\ sentLog = <<>>
    /\ observed = <<>>
    /\ string = None
    /\ str_buffer = BytesIO(<<>>)

Init ==
    InitCommon /\ (InitRequest \/ InitParse \/ InitString \/ InitSerialize
                   \/ InitSession)

\* ------------------------------------------------------------------------
\* Actions of the client
\* ------------------------------------------------------------------------
\* Where an exception or a return leaves the client: inside the `with` block
\* of api.request it runs __exit__ next; AjpResponse.parse just ends.
Leave == IF UsesConnection THEN "exit" ELSE "done"

\* AjpConnection.__init__: the socket is created
Construct ==
    /\ pc = "construct"
    /\ sock' = "created"
    /\ pc' = "enter"
    /\ UNCHANGED <<entry, peerClosed, wire, sentLog, written, ajp_request, gen,
                   prefix_code, resp_buffer, resp_content, ajp_resp, outcome,
                   observed, recvs, underrun, chunkLens>>
    /\ UNCHANGED <<stringVars, blockVars, sessionVars>>

\* __enter__: connect() succeeds
Connect ==
    /\ pc = "enter"
    /\ sock' = "connected"
    /\ pc' = "send_and_receive"
    /\ UNCHANGED <<entry, peerClosed, wire, sentLog, written, ajp_request, gen,
                   prefix_code, resp_buffer, resp_content, ajp_resp, outcome,
                   observed, recvs, underrun, chunkLens>>
    /\ UNCHANGED <<stringVars, blockVars, sessionVars>>

\* __enter__: connect() raises; a `with` statement whose __enter__ raises
\* does not call __exit__, the exception leaves api.request.
ConnectFails ==
    /\ pc = "enter"
    /\ outcome' = "ConnectionRefusedError"
    /\ pc' = "done"
    /\ UNCHANGED <<entry, sock, peerClosed, wire, sentLog, written, ajp_request,
                   gen, prefix_code, resp_buffer, resp_content, ajp_resp,
                   observed, recvs, underrun, chunkLens>>
    /\ UNCHANGED <<stringVars, blockVars, sessionVars>>

\* The attribute send_and_receive appends: ('AJP_REMOTE_PORT', str(port))
RemotePortAttribute ==
    [code |-> REQ_ATTRIBUTE,
     name |-> Some(<<65, 74, 80, 95, 82, 69, 77, 79, 84, 69, 95, 80, 79, 82, 84>>),
     value |-> Some(IntToStr(LocalPort))]

\* send_and_receive up to the sendall of the forward request
SendRequest ==
    /\ pc = "send_and_receive"
    /\ LET req == [ajp_request EXCEPT
                      !.attributes = Append(@, RemotePortAttribute)]
           p == serialize_to_packet(req)
       IN /\ ajp_request' = req
          /\ default_attributes' = IF aliased THEN req.attributes
                                              ELSE default_attributes
          /\ IF p.ok
             THEN /\ written' = Append(written,
                        [kind |-> "forward_request", bytes |-> p.bytes,
                         data |-> [off |-> 0, n |-> 0]])
                  /\ hdr_packet' = serialize_headers(req.request_headers)
                  /\ attr_packet' = serialize_attributes(req.attributes)
                  /\ pc' = "upload"
                  /\ outcome' = outcome
             ELSE /\ written' = written
                  /\ UNCHANGED blockVars
                  /\ pc' = "exit"
                  /\ outcome' = "struct.error"
    /\ UNCHANGED <<entry, sock, peerClosed, wire, sentLog, gen, prefix_code,
                   resp_buffer, resp_content, ajp_resp, observed, recvs,
                   underrun, chunkLens>>
    /\ sends' = sends + 1
    /\ UNCHANGED <<stringVars, aliased, calls>>

\* sendall raises on a connection the peer has closed (it may also still
\* succeed: the kernel buffers the bytes).  The sendall of the forward
\* request comes after the attribute has been appended and the request
\* serialized.
SendFails ==
    /\ pc \in {"send_and_receive", "upload"}
    /\ peerClosed
    /\ pc = "upload" =>
          /\ ~GenNext(gen, ajp_request.data_stream).stop
          /\ prefix_code = GET_BODY_CHUNK
          /\ UNCHANGED <<ajp_request, default_attributes, sends>>
    /\ pc = "send_and_receive" =>
          LET req == [ajp_request EXCEPT
                         !.attributes = Append(@, RemotePortAttribute)]
          IN /\ serialize_to_packet(req).ok
             /\ ajp_request' = req
             /\ default_attributes' = IF aliased THEN req.attributes
                                                 ELSE default_attributes
             /\ sends' = sends + 1
    /\ outcome' = "BrokenPipeError"
    /\ pc' = "exit"
    /\ UNCHANGED <<entry, sock, peerClosed, wire, sentLog, written,
                   gen, prefix_code, resp_buffer, resp_content, ajp_resp,
                   observed, recvs, underrun, chunkLens>>
    /\ UNCHANGED <<stringVars, blockVars, aliased, calls>>

\* One turn of `for packet in ajp_request.serialize_data_to_packet()` up to
\* the sendall: the generator runs to its next yield; the packet is sent
\* only while _prefix_code is GET_BODY_CHUNK, otherwise the loop just takes
\* the next packet.  StopIteration ends the loop: _parse is called.
UploadNext ==
    /\ pc = "upload"
    /\ LET g == GenNext(gen, ajp_request.data_stream) IN
       /\ gen' = g.gen
       /\ ajp_request' = [ajp_request EXCEPT !.data_stream = g.ds]
       /\ IF g.stop
          THEN pc' = "parse" /\ written' = written
          ELSE IF prefix_code = GET_BODY_CHUNK
          THEN pc' = "upload_recv" /\ written' = Append(written, g.packet)
          ELSE pc' = "upload" /\ written' = written
    /\ UNCHANGED <<entry, sock, peerClosed, wire, sentLog, prefix_code,
                   resp_buffer, resp_content, ajp_resp, outcome, observed,
                   recvs, underrun, chunkLens>>
    /\ UNCHANGED <<stringVars, blockVars, sessionVars>>

\* The rest of the turn: recv(RESPONSE_HEADER_LENGTH), unpack the header,
\* recv(_data_len - 1) into _resp_buffer.
UploadRecv ==
    /\ pc = "upload_recv"
    /\ LET f == FetchPacket("AjpConnection.send_and_receive", prefix_code,
                            None, wire, peerClosed)
       IN /\ ~f.blocks
          /\ wire' = f.wire
          /\ recvs' = recvs + f.recvs
          /\ IF f.exc # "none"
             THEN /\ outcome' = f.exc
                  /\ pc' = "exit"
                  /\ UNCHANGED <<prefix_code, resp_buffer, underrun>>
             ELSE /\ prefix_code' = f.prefix
                  /\ resp_buffer' = Some(f.buffer)
                  /\ underrun' = (underrun \/ f.got < f.want)
                  /\ pc' = "upload"
                  /\ outcome' = outcome
    /\ UNCHANGED <<entry, sock, peerClosed, sentLog, written, ajp_request, gen,
                   resp_content, ajp_resp, observed, chunkLens>>
    /\ UNCHANGED <<stringVars, blockVars, sessionVars>>

\* The chunk length a SEND_BODY_CHUNK body announces (0 when unreadable)
ChunkLenOf(prefix, buffer) ==
    IF prefix = SEND_BODY_CHUNK /\ Len(buffer) >= 2 THEN U16(buffer) ELSE 0

\* A SEND_BODY_CHUNK body holds fewer data bytes than its chunk length
ChunkUnderrun(prefix, buffer) ==
    prefix = SEND_BODY_CHUNK /\ Len(buffer) >= 2 /\ Len(buffer) - 2 < U16(buffer)

\* One iteration of the decoder's while loop
ParseStep ==
    /\ pc = "parse"
    /\ LoopContinues(prefix_code)
    /\ LET f == FetchPacket(Decoder, prefix_code, resp_buffer, wire, peerClosed)
           d == Dispatch(f.prefix, f.buffer, resp_content, ajp_resp)
       IN /\ ~f.blocks
          /\ wire' = f.wire
          /\ recvs' = recvs + f.recvs
          /\ IF f.exc # "none"
             THEN /\ outcome' = f.exc
                  /\ pc' = Leave
                  /\ UNCHANGED <<prefix_code, resp_buffer, resp_content,
                                 ajp_resp, observed, underrun, chunkLens>>
             ELSE /\ observed' = Append(observed, f.prefix)
                  /\ underrun' = (underrun \/ f.got < f.want
                                  \/ ChunkUnderrun(f.prefix, f.buffer))
                  /\ chunkLens' = chunkLens + ChunkLenOf(f.prefix, f.buffer)
                  /\ prefix_code' = f.prefix
                  /\ IF d.exc # "none"
                     THEN /\ outcome' = d.exc
                          /\ pc' = Leave
                          /\ resp_buffer' = Some(f.buffer)
                          /\ UNCHANGED <<resp_content, ajp_resp>>
                     ELSE /\ resp_buffer' = None
                          /\ resp_content' = d.content
                          /\ ajp_resp' = d.resp
                          /\ UNCHANGED <<outcome, pc>>
    /\ UNCHANGED <<entry, sock, peerClosed, sentLog, written, ajp_request, gen>>
    /\ UNCHANGED <<stringVars, blockVars, sessionVars>>

\* The loop ends (_prefix_code is END_RESPONSE): _content is set and the
\* AjpResponse is returned.
ParseReturn ==
    /\ pc = "parse"
    /\ ~LoopContinues(prefix_code)
    /\ outcome' = "returned"
    /\ pc' = Leave
    /\ UNCHANGED <<entry, sock, peerClosed, wire, sentLog, written, ajp_request,
                   gen, prefix_code, resp_buffer, resp_content, ajp_resp,
                   observed, recvs, underrun, chunkLens>>
    /\ UNCHANGED <<stringVars, blockVars, sessionVars>>

\* __exit__: disconnect() closes the socket; the result or the exception
\* leaves api.request.
Exit ==
    /\ pc = "exit"
    /\ sock' = "closed"
    /\ pc' = "done"
    /\ UNCHANGED <<entry, peerClosed, wire, sentLog, written, ajp_request, gen,
                   prefix_code, resp_buffer, resp_content, ajp_resp, outcome,
                   observed, recvs, underrun, chunkLens>>
    /\ UNCHANGED <<stringVars, blockVars, sessionVars>>

\* ------------------------------------------------------------------------
\* A caller that opens one connection after the other
\* ------------------------------------------------------------------------
\* What a new `with AjpConnection(...)` block starts from: no socket, and
\* the locals of send_and_receive as they are at its start
NewConnection ==
    /\ pc' = "construct"
    /\ sock' = "none"
    /\ peerClosed' = FALSE
    /\ wire' = <<>>
    /\ sentLog' = <<>>
    /\ written' = <<>>
    /\ gen' = "new"
    /\ prefix_code' = GET_BODY_CHUNK
    /\ resp_buffer' = None
    /\ resp_content' = <<>>
    /\ ajp_resp' = NewResponse
    /\ outcome' = "none"
    /\ observed' = <<>>
    /\ recvs' = 0
    /\ underrun' = FALSE
    /\ chunkLens' = 0
    /\ hdr_packet' = <<>>
    /\ attr_packet' = <<>>
    /\ calls' = calls + 1

\* After a cycle has ended the caller constructs another AjpForwardRequest
\* and opens a connection for it
NewRequest ==
    /\ entry = "session"
    /\ pc = "done"
    /\ calls < MaxCalls
    /\ ConstructRequest(ajp_request', aliased')
    /\ sends' = 0
    /\ NewConnection
    /\ UNCHANGED <<entry, default_attributes, stringVars>>

\* After a cycle has ended the caller opens a connection and sends the
\* request object it has
SendAgain ==
    /\ entry = "session"
    /\ pc = "done"
    /\ calls < MaxCalls
    /\ NewConnection
    /\ UNCHANGED <<entry, ajp_request, default_attributes, aliased, sends,
                   stringVars>>

\* ------------------------------------------------------------------------
\* The wire primitives and the serializer called directly
\* ------------------------------------------------------------------------
\* pack_as_string(string); the result is put into a buffer, alone or with
\* bytes behind it
PackString ==
    /\ pc = "pack"
    /\ packed' = pack_as_string(string)
    /\ \E t \in Trailing : str_buffer' = BytesIO(packed' \o t)
    /\ pc' = "unpack"
    /\ UNCHANGED <<entry, sock, peerClosed, wire, sentLog, written, ajp_request,
                   gen, prefix_code, resp_buffer, resp_content, ajp_resp,
                   outcome, observed, recvs, underrun, chunkLens,
                   string, unpacked, blockVars, sessionVars>>

\* unpack_as_string(buffer): the tuple it returns, or struct.error; the
\* buffer's position moves over what was read
UnpackString ==
    /\ pc = "unpack"
    /\ LET r == unpack_as_string(Drop(str_buffer.bytes, str_buffer.pos)) IN
       /\ unpacked' = [done |-> TRUE,
                       exc |-> IF r.ok THEN "none" ELSE "struct.error",
                       val |-> IF r.ok THEN Some(r.val) ELSE None]
       /\ str_buffer' = [str_buffer EXCEPT
                            !.pos = Len(str_buffer.bytes) - Len(r.rest)]
       /\ outcome' = IF r.ok THEN "unpacked" ELSE "struct.error"
    /\ pc' = "done"
    /\ UNCHANGED <<entry, sock, peerClosed, wire, sentLog, written, ajp_request,
                   gen, prefix_code, resp_buffer, resp_content, ajp_resp,
                   observed, recvs, underrun, chunkLens,
                   string, packed, blockVars, sessionVars>>

\* ajp_request.serialize_to_packet()
SerializeRequest ==
    /\ pc = "serialize"
    /\ LET p == serialize_to_packet(ajp_request) IN
       IF p.ok
       THEN /\ written' = Append(written,
                  [kind |-> "forward_request", bytes |-> p.bytes,
                   data |-> [off |-> 0, n |-> 0]])
            /\ hdr_packet' = serialize_headers(ajp_request.request_headers)
            /\ attr_packet' = serialize_attributes(ajp_request.attributes)
            /\ pc' = "data"
            /\ outcome' = outcome
       ELSE /\ outcome' = "struct.error"
            /\ pc' = "done"
            /\ UNCHANGED <<written, blockVars>>
    /\ UNCHANGED <<entry, sock, peerClosed, wire, sentLog, ajp_request,
                   gen, prefix_code, resp_buffer, resp_content, ajp_resp,
                   observed, recvs, underrun, chunkLens, stringVars,
                   sessionVars>>

\* next() on ajp_request.serialize_data_to_packet(), the packet collected
SerializeData ==
    /\ pc = "data"
    /\ LET g == GenNext(gen, ajp_request.data_stream) IN
       /\ gen' = g.gen
       /\ ajp_request' = [ajp_request EXCEPT !.data_stream = g.ds]
       /\ IF g.stop
          THEN pc' = "done" /\ outcome' = "serialized" /\ written' = written
          ELSE pc' = pc /\ outcome' = outcome /\ written' = Append(written, g.packet)
    /\ UNCHANGED <<entry, sock, peerClosed, wire, sentLog, prefix_code,
                   resp_buffer, resp_content, ajp_resp, observed, recvs,
                   underrun, chunkLens, stringVars, blockVars,
                   sessionVars>>

\* ------------------------------------------------------------------------
\* Actions of the container
\* ------------------------------------------------------------------------
\* The client has nothing to read, or its read of a packet cannot complete
ClientWaits ==
    \/ wire = <<>>
    \/ /\ pc = "parse"
       /\ LoopContinues(prefix_code)
       /\ FetchPacket(Decoder, prefix_code, resp_buffer, wire, peerClosed).blocks

\* The container sends one packet of the menu, once a request has reached it
ContainerSend(m) ==
    /\ sock = "connected"
    /\ ~peerClosed
    /\ pc # "done"
    /\ UsesConnection => written # <<>>
    /\ Len(sentLog) < MaxPackets
    /\ m \in OpeningNames => sentLog = <<>>
    /\ ClientWaits
    /\ wire' = wire \o Menu[m].bytes
    /\ sentLog' = Append(sentLog, m)
    /\ UNCHANGED <<entry, pc, sock, peerClosed, written, ajp_request, gen,
                   prefix_code, resp_buffer, resp_content, ajp_resp, outcome,
                   observed, recvs, underrun, chunkLens>>
    /\ UNCHANGED <<stringVars, blockVars, sessionVars>>

\* The container closes the connection (with everything it has sent still
\* to be read by the client, or nothing)
ContainerClose ==
    /\ sock = "connected"
    /\ ~peerClosed
    /\ pc # "done"
    /\ ClientWaits
    /\ peerClosed' = TRUE
    /\ UNCHANGED <<entry, pc, sock, wire, sentLog, written, ajp_request, gen,
                   prefix_code, resp_buffer, resp_content, ajp_resp, outcome,
                   observed, recvs, underrun, chunkLens>>
    /\ UNCHANGED <<stringVars, blockVars, sessionVars>>

Next ==
    \/ Construct
    \/ Connect
    \/ ConnectFails
    \/ SendRequest
    \/ SendFails
    \/ UploadNext
    \/ UploadRecv
    \/ ParseStep
    \/ ParseReturn
    \/ Exit
    \/ NewRequest
    \/ SendAgain
    \/ PackString
    \/ UnpackString
    \/ SerializeRequest
    \/ SerializeData
    \/ \E m \in MenuNames : ContainerSend(m)
    \/ ContainerClose

Spec == Init /\ [][Next]_vars

\* ------------------------------------------------------------------------
\* Properties
\* ------------------------------------------------------------------------
KnownPrefixCodes == {SEND_BODY_CHUNK, SEND_HEADERS, END_RESPONSE, GET_BODY_CHUNK}

\* The packets of one kind among the first n packets written
CountKind(kind, n) == Cardinality({i \in 1..n : written[i].kind = kind})

\* All the packets the generator yields from (gen, ds) on, until StopIteration
RECURSIVE GenRun(_, _)
GenRun(g, ds) ==
    LET r == GenNext(g, ds) IN
    IF r.stop THEN <<>> ELSE <<r.packet>> \o GenRun(r.gen, r.ds)

\* A chunk packet within the bound: 1..MAX_REQUEST_LENGTH data bytes, the
\* inner length field says so, the packet length field is two more.
ChunkWithinBound(p) ==
    /\ p.data.n >= 1
    /\ p.data.n <= MAX_REQUEST_LENGTH
    /\ Len(p.bytes) = 6
    /\ SubSeq(p.bytes, 1, 2) = WEB_SERVER_TO_SERVLET_CONTAINER
    /\ U16(SubSeq(p.bytes, 5, 6)) = p.data.n
    /\ U16(SubSeq(p.bytes, 3, 4)) = p.data.n + 2
    /\ U16(SubSeq(p.bytes, 3, 4)) <= MAX_REQUEST_LENGTH + 2

\* C1: on every exit path of a use of AjpConnection (normal return, a
\* failure inside send_and_receive, a failure of connect()) the socket the
\* connection created has been closed by disconnect() when the use is over.
C1_SocketClosedOnEveryExit ==
    (entry = "request" /\ pc = "done" /\ sock # "none") => sock = "closed"

\* C2: the decoder returns a Response only after END_RESPONSE has been
\* observed: as the prefix code of the last packet it dispatched on, or, when
\* it dispatched on none, as the prefix code it was started with.
C2_ReturnOnlyAfterEndResponse ==
    outcome = "returned" =>
        IF observed = <<>>
        THEN prefix_code = END_RESPONSE
        ELSE observed[Len(observed)] = END_RESPONSE

\* C2 witness: a Response returned after the decoder itself read
\* SEND_HEADERS, a body chunk and END_RESPONSE off the socket.
C2_Witness ==
    /\ outcome = "returned"
    /\ Len(observed) >= 3
    /\ recvs >= 6
    /\ observed[Len(observed)] = END_RESPONSE

\* C3: during the upload every chunk written is followed by a read of the
\* container's next packet, and a packet read with a prefix code other than
\* GET_BODY_CHUNK is what the decoder starts from.
C3_UploadHandshake ==
    /\ (entry = "request" /\ pc # "upload_recv")
          => recvs >= CountKind("chunk", Len(written))
    /\ (entry = "request" /\ pc = "parse" /\ recvs > 0 /\ observed = <<>>)
          => resp_buffer.some

\* The upload the transmitter owes for a body of n bytes: ceil(n / 8186)
\* chunks covering the body in order, then one terminator.
ExpectedUpload(n) ==
    LET k == (n + MAX_REQUEST_LENGTH - 1) \div MAX_REQUEST_LENGTH IN
    [i \in 1..k |->
        ChunkPacket((i - 1) * MAX_REQUEST_LENGTH,
                    Min(MAX_REQUEST_LENGTH, n - (i - 1) * MAX_REQUEST_LENGTH))]
    \o <<ChunkPacket(n, 0)>>

\* C4: for a body stream of N bytes and a container that answers every
\* chunk with GET_BODY_CHUNK (and keeps the connection open), the packets
\* written after the forward request, when the cycle is over, are exactly
\* ceil(N / 8186) chunks covering the body in order and one terminator.
C4_UploadEmitsAllChunks ==
    (/\ entry = "request"
     /\ pc = "done"
     /\ ajp_request.data_stream.some
     /\ written # <<>>
     /\ ~peerClosed
     /\ sentLog # <<>>
     /\ \A i \in 1..Len(sentLog) : sentLog[i] = "get_body_chunk"
     /\ Len(sentLog) >= CountKind("chunk", Len(written)))
    => Tail(written) = ExpectedUpload(ajp_request.data_stream.len)

\* C5: every non-terminator chunk packet written to the socket, and every
\* one the generator yields from here on, carries 1..8186 data bytes, an
\* inner length field equal to the data length and a packet length field of
\* data length + 2.
C5_ChunkBound ==
    /\ \A i \in 1..Len(written) :
          written[i].kind = "chunk" => ChunkWithinBound(written[i])
    /\ LET rest == GenRun(gen, ajp_request.data_stream) IN
       \A i \in 1..Len(rest) :
          rest[i].kind = "chunk" => ChunkWithinBound(rest[i])

\* C5 witness: a full chunk of 8186 bytes has been written to the socket
\* and the stream holds more.
C5_Witness ==
    /\ \E i \in 1..Len(written) :
          written[i].kind = "chunk" /\ written[i].data.n = MAX_REQUEST_LENGTH
    /\ ajp_request.data_stream.len > MAX_REQUEST_LENGTH

\* The transcripts SEND_HEADERS, one or more well-formed SEND_BODY_CHUNK,
\* END_RESPONSE
ChunkNames == {"chunk_he", "chunk_llo", "chunk_hello"}
HeaderNames == {"hdrs_literal", "hdrs_coded"}
WellFormedTranscript(log) ==
    /\ Len(log) >= 3
    /\ log[1] \in HeaderNames
    /\ log[Len(log)] = "end_response"
    /\ \A i \in 2..(Len(log) - 1) : log[i] \in ChunkNames

\* C6: for a response body B, split in any way across SEND_BODY_CHUNK
\* packets between SEND_HEADERS and END_RESPONSE, the content of the
\* returned Response is B.
C6_ChunkingInvariance ==
    (outcome = "returned" /\ WellFormedTranscript(sentLog))
        => resp_content = BodyOf(sentLog)

\* C7: the padding byte behind a chunk is consumed but never appended: as
\* long as every packet carried the bytes it announced, the content is as
\* long as the sum of the chunk lengths dispatched.
C7_PaddingNotInContent ==
    ~underrun => Len(resp_content) = chunkLens

\* Scenario A: SEND_HEADERS(200, "OK", Content-Type: text/plain),
\* SEND_BODY_CHUNK("hello"), END_RESPONSE
ScenarioA == {<<h, "chunk_hello", "end_response">> : h \in HeaderNames}
IsPrefixOf(a, b) == Len(a) <= Len(b) /\ SubSeq(b, 1, Len(a)) = a

\* C8: a body-less request sent through send_and_receive, answered by the
\* container with scenario A over a connection it keeps open, ends with a
\* returned Response of status 200, the one header Content-Type:
\* text/plain and the body "hello".
C8_ScenarioA ==
    (/\ entry = "request"
     /\ pc = "done"
     /\ ~ajp_request.data_stream.some
     /\ written # <<>>
     /\ ~peerClosed
     /\ sentLog # <<>>
     /\ \E t \in ScenarioA : IsPrefixOf(sentLog, t))
    => /\ outcome = "returned"
       /\ sentLog \in ScenarioA
       /\ ajp_resp.status_code = 200
       /\ Len(ajp_resp.headers) = 1
       /\ ajp_resp.headers[1].k \in {PyStr("Content-Type"), PyBytes(StrContentType)}
       /\ ajp_resp.headers[1].v.b = StrTextPlain
       /\ resp_content = StrHello

\* C9: once the decoder has dispatched on a prefix code that is none of
\* the four it knows, the decode has ended with the error of the else
\* branch, no Response is returned, no later packet is dispatched and no
\* further read of the socket is made.
C9_UnknownPrefixFails ==
    /\ [](\A i \in 1..Len(observed) :
            observed[i] \notin KnownPrefixCodes
                => /\ i = Len(observed)
                   /\ outcome = "NotImplementedError"
                   /\ pc \in {"exit", "done"})
    /\ [][outcome = "NotImplementedError"
            => recvs' = recvs /\ observed' = observed /\ outcome' = outcome]_vars

\* C9 witness: after other packets the decoder read CPONG_REPLY off the
\* socket and ended with the error.
C9_Witness ==
    /\ outcome = "NotImplementedError"
    /\ Len(observed) >= 2
    /\ recvs >= 4
    /\ observed[Len(observed)] = CPONG_REPLY

\* C10: when a length field of a response packet (packet length, chunk
\* length) announced more bytes than the read delivered, the decode does
\* not return a Response and, once over, has ended in an error.
C10_UnderrunFails ==
    underrun => /\ outcome # "returned"
                /\ pc = "done" => outcome # "none"

\* The buffer handed to unpack_as_string starts with a negative length
StartsAbsent(b) == Len(b) >= 2 /\ S16(Take(b, 2)) < 0

\* C11: unpack_as_string(pack_as_string(s)) gives back s for every str s,
\* the empty one and those with characters of more than one UTF-8 byte
\* included; None is packed as the two bytes FF FF and nothing else.
C11_StringRoundTrip ==
    /\ (entry = "string" /\ packed # <<>> /\ ~string.some)
           => packed = <<255, 255>>
    /\ (entry = "string" /\ packed # <<>> /\ string.some /\ unpacked.done)
           => /\ unpacked.exc = "none"
              /\ IF string.bytes = <<>>
                 THEN unpacked.val \in {None, Some(<<>>)}
                 ELSE unpacked.val = Some(Utf8(string.bytes))

\* The SEND_HEADERS packets that carry an absent string
AbsentStringHeaders == {"hdrs_no_msg", "hdrs_no_value"}

\* C12: a wire string of negative length decodes to the absent value
\* without an error, two bytes consumed; a SEND_HEADERS with an absent
\* status message or header value is decoded without failure.
C12_AbsentStringDecodes ==
    /\ (entry = "string" /\ unpacked.done /\ StartsAbsent(str_buffer.bytes))
           => /\ unpacked.exc = "none"
              /\ unpacked.val = None
              /\ str_buffer.pos = 2
    /\ (entry = "parse" /\ sentLog # <<>> /\ sentLog[1] \in AbsentStringHeaders
          /\ (observed # <<>> \/ pc = "done"))
           => /\ outcome \in {"none", "returned"}
              /\ ajp_resp.status_code = 200
              /\ Len(ajp_resp.headers) = 1

\* C13: a non-empty str is packed as the uint16 number of its UTF-8 bytes,
\* all of those bytes and one 00 the length does not count;
\* unpack_as_string consumes exactly that.
C13_PackedLayout ==
    (entry = "string" /\ packed # <<>> /\ string.some /\ string.bytes # <<>>)
        => /\ packed = PackU16(Len(Utf8(string.bytes)))
                       \o Utf8(string.bytes) \o <<0>>
           /\ unpacked.done => str_buffer.pos = Len(packed)

\* ------------------------------------------------------------------------
\* The layout of the forward request, read back field by field
\* ------------------------------------------------------------------------
\* The wire string at the head of b: a negative int16 alone is the absent
\* string, else the length, that many bytes and a 00.
RdString(b) ==
    LET Fail == [ok |-> FALSE, absent |-> FALSE, val |-> <<>>, rest |-> b] IN
    IF Len(b) < 2 THEN Fail
    ELSE LET l == S16(Take(b, 2)) IN
         IF l < 0
         THEN [ok |-> TRUE, absent |-> TRUE, val |-> <<>>, rest |-> Drop(b, 2)]
         ELSE IF Len(b) < l + 3 THEN Fail
         ELSE IF b[l + 3] # 0 THEN Fail
         ELSE [ok |-> TRUE, absent |-> FALSE, val |-> SubSeq(b, 3, l + 2),
               rest |-> Drop(b, l + 3)]

IsAscii(cs) == \A i \in 1..Len(cs) : cs[i] < 128

\* The wire string rd carries the str (or None) s: None and '' as the
\* absent string, anything else as a present one (byte for byte when s is
\* ASCII; C13 is about the bytes of the others).
Carries(rd, s) ==
    /\ rd.ok
    /\ IF ~s.some \/ s.bytes = <<>>
       THEN rd.absent
       ELSE ~rd.absent /\ (IsAscii(s.bytes) => rd.val = s.bytes)

\* The attributes block at the head of b: entries of a code byte and one
\* wire string (two for REQ_ATTRIBUTE) up to the first FF in code position.
RECURSIVE RdAttributes(_)
RdAttributes(b) ==
    IF b = <<>> THEN [ok |-> FALSE, entries |-> <<>>, rest |-> b]
    ELSE IF b[1] = 255 THEN [ok |-> TRUE, entries |-> <<>>, rest |-> Tail(b)]
    ELSE LET s1 == RdString(Tail(b))
             s2 == RdString(s1.rest)
             named == b[1] = REQ_ATTRIBUTE
             more == RdAttributes(IF named THEN s2.rest ELSE s1.rest)
         IN IF ~s1.ok \/ (named /\ ~s2.ok)
            THEN [ok |-> FALSE, entries |-> <<>>, rest |-> b]
            ELSE [ok |-> more.ok,
                  entries |-> <<[code |-> b[1],
                                 strings |-> IF named THEN <<s1, s2>> ELSE <<s1>>]>>
                              \o more.entries,
                  rest |-> more.rest]

\* C14: the attributes block lists the attributes in list order, each as
\* its code byte and one wire string (name and value for REQ_ATTRIBUTE),
\* and ends with exactly one FF; no entry has the code FF and nothing
\* precedes the first entry.
C14_AttributesBlock ==
    attr_packet # <<>> =>
        LET r == RdAttributes(attr_packet)
            as == ajp_request.attributes
        IN /\ r.ok
           /\ r.rest = <<>>
           /\ attr_packet[Len(attr_packet)] = 255
           /\ Len(r.entries) = Len(as)
           /\ \A i \in 1..Len(as) :
                 /\ r.entries[i].code = as[i].code
                 /\ r.entries[i].code # 255
                 /\ IF as[i].code = REQ_ATTRIBUTE
                    THEN /\ Len(r.entries[i].strings) = 2
                         /\ Carries(r.entries[i].strings[1], as[i].name)
                         /\ Carries(r.entries[i].strings[2], as[i].value)
                    ELSE /\ Len(r.entries[i].strings) = 1
                         /\ Carries(r.entries[i].strings[1], as[i].value)

\* C14 witness: a list with the same attribute twice has been serialized
C14_Witness ==
    /\ entry = "serialize"
    /\ attr_packet # <<>>
    /\ Len(ajp_request.attributes) = 2
    /\ ajp_request.attributes[1] = ajp_request.attributes[2]

\* The bytes a wire string takes for the str (or None) s
WireSize(s) ==
    IF ~s.some \/ s.bytes = <<>> THEN 2 ELSE 2 + Len(Utf8(s.bytes)) + 1

\* Scenario B: GET /index, no headers, no attributes, no body
ScenarioB(req) ==
    /\ req.method = GET
    /\ req.req_uri = Some(StrIndex)
    /\ req.request_headers = <<>>
    /\ req.attributes = <<>>
    /\ ~req.data_stream.some

\* C15: every packet the client emits starts with 12 34 and a uint16
\* length that is the number of bytes behind those four; for scenario B
\* the length is type + method + five strings + port + ssl + header count
\* + attribute terminator.
C15_PacketLength ==
    /\ \A i \in 1..Len(written) :
          /\ Len(written[i].bytes) >= 4
          /\ SubSeq(written[i].bytes, 1, 2) = <<18, 52>>
          /\ U16(SubSeq(written[i].bytes, 3, 4))
                = Len(written[i].bytes) - 4 + written[i].data.n
    /\ (entry = "serialize" /\ written # <<>> /\ ScenarioB(ajp_request))
          => U16(SubSeq(written[1].bytes, 3, 4))
                = 1 + 1 + WireSize(ajp_request.protocol)
                  + WireSize(ajp_request.req_uri)
                  + WireSize(ajp_request.remote_addr)
                  + WireSize(ajp_request.remote_host)
                  + WireSize(ajp_request.server_name) + 2 + 1 + 2 + 1

\* C15 witness: a forward request with headers and attributes, a full
\* chunk, a second chunk and the terminator have been emitted
C15_Witness ==
    /\ entry = "serialize"
    /\ pc = "done"
    /\ Len(written) = 4
    /\ written[1].kind = "forward_request"
    /\ written[2].data.n = MAX_REQUEST_LENGTH
    /\ written[4].kind = "terminator"
    /\ ajp_request.request_headers # <<>>
    /\ ajp_request.attributes # <<>>

\* C16: the body of the forward request is the type byte 02, the method
\* code, the protocol, URI, remote address, remote host and server name
\* strings, the port as two bytes big-endian, the SSL byte, the headers
\* block and the attributes block, in this order with nothing in between.
C16_ForwardRequestLayout ==
    (written # <<>> /\ written[1].kind = "forward_request") =>
        LET body == Drop(written[1].bytes, 4)
            s1 == RdString(Drop(body, 2))
            s2 == RdString(s1.rest)
            s3 == RdString(s2.rest)
            s4 == RdString(s3.rest)
            s5 == RdString(s4.rest)
        IN /\ body[1] = 2
           /\ body[2] = ajp_request.method
           /\ Carries(s1, ajp_request.protocol)
           /\ Carries(s2, ajp_request.req_uri)
           /\ Carries(s3, ajp_request.remote_addr)
           /\ Carries(s4, ajp_request.remote_host)
           /\ Carries(s5, ajp_request.server_name)
           /\ Len(s5.rest) >= 3
           /\ s5.rest[1] * 256 + s5.rest[2] = ajp_request.server_port
           /\ s5.rest[3] = (IF ajp_request.is_ssl THEN 1 ELSE 0)
           /\ Drop(s5.rest, 3) = hdr_packet \o attr_packet

\* C16 witness: a request over SSL on port 8443 with a URI, headers and
\* attributes has been serialized
C16_Witness ==
    /\ entry = "serialize"
    /\ written # <<>>
    /\ ajp_request.is_ssl
    /\ ajp_request.server_port = 8443
    /\ ajp_request.req_uri = Some(StrIndex)
    /\ Len(ajp_request.request_headers) = 2
    /\ Len(ajp_request.attributes) = 2

\* The headers block at the head of b: a uint16 count, then per header a
\* two-byte AjpHeader code (A001..A00E) or a wire string with the name,
\* and a wire string with the value.
RdHeaders(b) ==
    LET RECURSIVE rd(_, _)
        rd(n, c) ==
            IF n = 0 THEN [ok |-> TRUE, entries |-> <<>>, rest |-> c]
            ELSE IF Len(c) < 2 THEN [ok |-> FALSE, entries |-> <<>>, rest |-> c]
            ELSE LET v == U16(Take(c, 2))
                     coded == v >= SC_REQ_ACCEPT /\ v <= SC_REQ_USER_AGENT
                     name == RdString(c)
                     value == RdString(IF coded THEN Drop(c, 2) ELSE name.rest)
                     more == rd(n - 1, value.rest)
                 IN IF (~coded /\ ~name.ok) \/ ~value.ok
                    THEN [ok |-> FALSE, entries |-> <<>>, rest |-> c]
                    ELSE [ok |-> more.ok,
                          entries |-> <<[code |-> IF coded THEN v ELSE 0,
                                         name |-> name, value |-> value]>>
                                      \o more.entries,
                          rest |-> more.rest]
    IN IF Len(b) < 2 THEN [ok |-> FALSE, entries |-> <<>>, rest |-> b]
       ELSE rd(U16(Take(b, 2)), Drop(b, 2))

\* The elements of a list-valued header with ',' between them
CommaJoined(items) ==
    LET RECURSIVE upto(_)
        upto(k) == IF k = 0 THEN <<>>
                   ELSE IF k = 1 THEN items[1]
                   ELSE upto(k - 1) \o <<44>> \o items[k]
    IN upto(Len(items))

\* The str a header value is sent as
SentValue(v) == IF IsList(v) THEN Some(CommaJoined(v.items)) ELSE v

\* C17: the headers block is the uint16 number of headers of the map, then
\* per header the two-byte code A0 xx of an AjpHeader member or the
\* literal name as a wire string, and the value as a wire string, a list
\* value as its elements joined with ','.
C17_HeadersBlock ==
    /\ \A c \in SC_REQ_ACCEPT..SC_REQ_USER_AGENT :
          HeaderCode(c) = <<160, c % 256>>
    /\ hdr_packet # <<>> =>
          LET r == RdHeaders(hdr_packet)
              hs == ajp_request.request_headers
          IN /\ U16(Take(hdr_packet, 2)) = Len(hs)
             /\ r.ok
             /\ r.rest = <<>>
             /\ Len(r.entries) = Len(hs)
             /\ \A i \in 1..Len(hs) :
                   /\ r.entries[i].code = hs[i].code
                   /\ hs[i].code = 0 => Carries(r.entries[i].name, hs[i].name)
                   /\ Carries(r.entries[i].value, SentValue(hs[i].value))

\* C17 witness: a map with a literal header whose value is a list of two
\* elements has been serialized
C17_Witness ==
    /\ entry = "serialize"
    /\ hdr_packet # <<>>
    /\ \E i \in 1..Len(ajp_request.request_headers) :
          /\ ajp_request.request_headers[i].code = 0
          /\ IsList(ajp_request.request_headers[i].value)
          /\ Len(ajp_request.request_headers[i].value.items) = 2

\* A header or an attribute of the request has the value None
HasNoneValue(req) ==
    \/ \E i \in 1..Len(req.request_headers) :
          /\ ~IsList(req.request_headers[i].value)
          /\ ~req.request_headers[i].value.some
    \/ \E i \in 1..Len(req.attributes) : ~req.attributes[i].value.some

C19_HeaderDiscriminator ==
    (entry = "parse" /\ sentLog # <<>> /\ Len(observed) = 1)
    => /\ sentLog[1] = "hdrs_coded"
          => ajp_resp.headers
                = <<[k |-> PyStr("Content-Type"), v |-> PyBytes(StrTextPlain)]>>
       /\ sentLog[1] = "hdrs_boundary"
          => ajp_resp.headers
                = <<[k |-> PyStr("Content-Type"), v |-> PyBytes(StrTextPlain)],
                    [k |-> PyBytes(LongName), v |-> PyBytes(StrHello)]>>

\* C19 witness: the packet with both kinds of header has been decoded and
\* the Response returned
C19_Witness ==
    /\ entry = "parse"
    /\ sentLog # <<>>
    /\ sentLog[1] = "hdrs_boundary"
    /\ outcome = "returned"
    /\ Len(ajp_resp.headers) = 2
    /\ Len(ajp_resp.headers[2].k.b) = CONTENT_TYPE - 1

C21_WireMessageFallback ==
    (entry = "parse" /\ sentLog # <<>> /\ Len(observed) = 1)
    => /\ sentLog[1] = "hdrs_999"
          => ajp_resp.status_code = 999 /\ ajp_resp.status_msg = "OK"
       /\ sentLog[1] = "hdrs_404"
          => ajp_resp.status_code = 404 /\ ajp_resp.status_msg = "NOT FOUND"

\* The name 'AJP_LOCAL_ADDR'
StrLocalAddr == <<65, 74, 80, 95, 76, 79, 67, 65, 76, 95, 65, 68, 68, 82>>

\* C22: once send_and_receive has written the forward request of
\* api.request (built with no attributes), the request's attribute list is
\* AJP_REMOTE_PORT with the local port followed by an attribute named
\* AJP_LOCAL_ADDR, two in all, and the attributes block of the packet is
\* the serialization of that list.
C22_TwoSynthesizedAttributes ==
    (entry = "request" /\ written # <<>>)
    => /\ Len(ajp_request.attributes) = 2
       /\ ajp_request.attributes[1] = RemotePortAttribute
       /\ ajp_request.attributes[2].name = Some(StrLocalAddr)
       /\ attr_packet = serialize_attributes(ajp_request.attributes)

\* C23: a request constructed without the attributes argument and not yet
\* sent has an empty attribute list, whatever requests were constructed and
\* sent before it.
C23_FreshDefaultCollections ==
    (entry = "session" /\ aliased /\ sends = 0)
    => ajp_request.attributes = <<>>

\* What one cycle has written so far: the forward request is the first
\* packet and the only one of its kind, anything behind it is there only
\* for a request with a data stream, and the decoder of a request without
\* one starts with nothing but the forward request written and no bytes in
\* its buffer, so that its first step is a read from the socket.
OrderedOnSocket ==
    /\ \A i \in 1..Len(written) : (written[i].kind = "forward_request") <=> (i = 1)
    /\ \A i \in 2..Len(written) :
          /\ written[i].kind \in {"chunk", "terminator"}
          /\ ajp_request.data_stream.some
    /\ (pc = "parse" /\ observed = <<>> /\ ~ajp_request.data_stream.some)
       => /\ Len(written) = 1
          /\ resp_buffer = None
          /\ prefix_code # END_RESPONSE

\* What one step does to the socket: a packet is written only by
\* send_and_receive before the decoder is called, one at a time, behind
\* those already written; the only other change is a new socket.
WritesInOrder ==
    /\ written' # written
       => \/ calls' = calls + 1 /\ written' = <<>>
          \/ /\ pc \in {"send_and_receive", "upload"}
             /\ Len(written') = Len(written) + 1
             /\ SubSeq(written', 1, Len(written)) = written
    /\ pc \in {"parse", "exit"} => written' = written

\* C24: in every cycle through an AjpConnection the forward request is
\* written first and once, chunks and the terminator only behind it and only
\* for a request with a data stream, nothing once the decoder has been
\* called; a request without data stream has the decoder start on the socket.
C24_SocketOrder ==
    [][UsesConnection => (WritesInOrder /\ OrderedOnSocket')]_vars

\* C24 witness: a cycle has ended with the forward request and a chunk of
\* the body written, in this order
C24_Witness ==
    /\ entry = "request"
    /\ pc = "done"
    /\ Len(written) = 2
    /\ written[1].kind = "forward_request"
    /\ written[2].kind = "chunk"
    /\ ajp_request.data_stream.some

\* C25: a step of AjpResponse.parse that dispatches on GET_BODY_CHUNK
\* leaves the status code, the description, the headers and the body read
\* so far as they were, raises nothing, drops the packet's buffer and stays
\* in the loop, so that the next step reads a packet from the socket.
C25_GetBodyChunkIgnored ==
    [][(entry = "parse" /\ observed' = Append(observed, GET_BODY_CHUNK))
       => /\ ajp_resp' = ajp_resp
          /\ resp_content' = resp_content
          /\ outcome' = "none"
          /\ resp_buffer' = None
          /\ pc' = "parse"
          /\ LoopContinues(prefix_code')]_vars

\* C25 witness: a Response has been returned whose packets were
\* SEND_HEADERS, a body chunk, GET_BODY_CHUNK, END_RESPONSE; its status and
\* body are those of the first two
C25_Witness ==
    /\ entry = "parse"
    /\ outcome = "returned"
    /\ observed = <<SEND_HEADERS, SEND_BODY_CHUNK, GET_BODY_CHUNK, END_RESPONSE>>
    /\ ajp_resp.status_code = 200
    /\ resp_content # <<>>

\* The chunks the transmitter owes for the request's body
ChunksOwed ==
    IF ajp_request.data_stream.some
    THEN (ajp_request.data_stream.len + MAX_REQUEST_LENGTH - 1)
            \div MAX_REQUEST_LENGTH
    ELSE 0

\* Packets that can open a well-formed response: SEND_HEADERS, body chunks
\* behind it, END_RESPONSE last
OpensResponse(log) ==
    \A i \in 1..Len(log) :
        /\ i = 1 => log[i] \in HeaderNames
        /\ i > 1 => log[i] \in ChunkNames \cup {"end_response"}
        /\ log[i] = "end_response" => i = Len(log)

\* The container has so far done what the cooperative container does: the
\* connection is open, and what it has sent is GET_BODY_CHUNK for chunks of
\* the upload and then the opening of a well-formed response.
Cooperates ==
    /\ ~peerClosed
    /\ \E j \in 0..Len(sentLog) :
          /\ j <= ChunksOwed
          /\ \A i \in 1..j : sentLog[i] = "get_body_chunk"
          /\ OpensResponse(SubSeq(sentLog, j + 1, Len(sentLog)))

\* C26: send_and_receive called for the request of api.request, with or
\* without body, against a container that cooperates, comes to return a
\* Response: a cycle that is over (nothing runs after __exit__) is over
\* with the Response returned.
C26_EventuallyReturns ==
    (entry = "request" /\ pc = "done" /\ written # <<>> /\ Cooperates)
        => outcome = "returned"

\* C27: serialize_to_packet on a request whose server port is in 0..65535
\* (and whose attribute codes can be packed) raises nothing, and the two
\* bytes behind the server name are the port, high byte first.
C27_PortUnsigned ==
    (/\ entry = "serialize"
     /\ pc # "serialize"
     /\ ajp_request.server_port \in 0..65535
     /\ AttributeCodesFit(ajp_request.attributes))
    => /\ outcome # "struct.error"
       /\ written # <<>>
       /\ LET body == Drop(written[1].bytes, 4)
              s5 == RdString(RdString(RdString(RdString(RdString(
                        Drop(body, 2)).rest).rest).rest).rest)
          IN /\ Len(s5.rest) >= 2
             /\ s5.rest[1] * 256 + s5.rest[2] = ajp_request.server_port

\* C28: a Response the decoder returns has a status code (a number) and a
\* status description; SEND_HEADERS was among the packets it dispatched on.
C28_ReturnedStatusSet ==
    outcome = "returned"
    => /\ ajp_resp.status_code # NoStatus
       /\ ajp_resp.status_msg # "None"
       /\ \E i \in 1..Len(observed) : observed[i] = SEND_HEADERS

\* k copies of the attribute send_and_receive appends
Copies(k) == [i \in 1..k |-> RemotePortAttribute]

\* C29: a request a caller has constructed (with an attribute list of its
\* own or without one) and sent k times is the request as constructed but
\* for its attribute list, which is the list it was constructed with
\* followed by k copies of the synthesized attribute; the forward request
\* written last carries this list.
C29_SendAppendsOnly ==
    entry = "session"
    => /\ \E attributes \in OwnAttributeLists :
             ajp_request = OwnRequest(attributes \o Copies(sends))
       /\ written # <<>>
             => attr_packet = serialize_attributes(ajp_request.attributes)

\* C30: wherever a decoder is about to run an iteration of its loop with
\* bytes of the container waiting on the socket, AjpConnection._parse and
\* AjpResponse.parse do the same from there on the same prefix code,
\* buffer and socket: the same reads, the same packet fetched or the same
\* exception (what follows the fetch is the same if/elif chain in both).
C30_DecodersEquivalent ==
    (pc = "parse" /\ LoopContinues(prefix_code) /\ wire # <<>>)
    => FetchPacket("AjpConnection._parse", prefix_code, resp_buffer, wire,
                   peerClosed)
       = FetchPacket("AjpResponse.parse", prefix_code, resp_buffer, wire,
                     peerClosed)

\* SEND_HEADERS packets whose header starts with a field above A00B
UnknownCodeNames == {"hdrs_a00c", "hdrs_ffff", "hdrs_a00c_name"}

\* C31: SEND_HEADERS whose header starts with A00C or FFFF ends the decode
\* in the ValueError of the enum at that packet: no Response is returned,
\* nothing of the packet reaches the Response, and this is so also when
\* the field is followed by that many bytes and a terminator, which read as
\* a literal name would decode.
C31_UnknownHeaderCodeFails ==
    (/\ entry = "parse"
     /\ sentLog # <<>>
     /\ sentLog[1] \in UnknownCodeNames
     /\ observed # <<>>)
    => /\ observed = <<SEND_HEADERS>>
       /\ outcome = "ValueError"
       /\ pc = "done"
       /\ ajp_resp = NewResponse

\* C31 witness: the decoder has dispatched on the packet in which the field
\* A00C is followed by A00C name bytes, and has ended
C31_Witness ==
    /\ entry = "parse"
    /\ sentLog # <<>>
    /\ sentLog[1] = "hdrs_a00c_name"
    /\ observed = <<SEND_HEADERS>>
    /\ pc = "done"
    /\ outcome # "none"

====
